---- MODULE Spec2Model ----
(***************************************************************************)
(* State and concurrency controller of the exam countdown                  *)
(* (src/src/components/ExamCountdown.jsx): the anonymous sign-in and the   *)
(* initial load, the one-second tick loop, the start and reset handlers,   *)
(* the persistence calls and the generation client with its retry loop.    *)
(*                                                                         *)
(* React commits are taken as atomic with the handler that sets the state: *)
(* the tick effect (its cleanup and its setInterval) is re-run in the same *)
(* step as the state change that alters its dependencies.  Every await of  *)
(* the source is a step boundary.  The countdown title and the reset modal *)
(* flag are presentation and are left out.                                 *)
(***************************************************************************)
EXTENDS Integers, Sequences, FiniteSets, TLC

VARIABLES
  clk,                 \* index of the current wall-clock instant
  store,               \* Firestore collection: uid -> document
  authPhase,           \* progress of the auth listener / anonymous sign-in
  authDue,             \* client events still due after the sign-in succeeded
  user,                \* useState(null): uid of the signed-in user
  loads,               \* loadTargetDate calls suspended at getDoc
  appState,            \* "loading" | "initial" | "active" | "finished" | "error"
  targetDate,          \* useState(null): deadline in ms since the epoch
  timeLeft,            \* {days, hours, minutes, seconds}
  currentMotivation,
  currentStudyTip,
  isLoadingMessage,
  inputError,
  lastGeneratedDayRef,
  isGeneratingRef,
  gens,                \* generateLlmContent calls suspended in the retry loop
  timers,              \* live setInterval timers of the tick effect
  scheduledDeletes,    \* setTimeout(() => deleteTargetDate(uid), 1000) not yet fired
  pendingStarts,       \* handleStartCountdown calls suspended at saveTargetDate
  pendingResets,       \* confirmReset calls suspended at deleteTargetDate
  userActions,         \* submissions and resets so far
  ev,                  \* the handler that ran last and what it saw
  probe                \* a pure function applied on its own: arguments and result

vars == <<clk, store, authPhase, authDue, user, loads, appState, targetDate,
          timeLeft, currentMotivation, currentStudyTip, isLoadingMessage,
          inputError, lastGeneratedDayRef, isGeneratingRef, gens, timers,
          scheduledDeletes, pendingStarts, pendingResets, userActions, ev, probe>>

----------------------------------------------------------------------------
(* Bounds of the exploration *)

MaxUserActions == 2    \* submissions of the day input and resets, together

\* a call can only start while another is suspended after a reset cleared
\* the flag: the calls outstanding at once are at most the resets plus one
MaxGens == MaxUserActions + 1

----------------------------------------------------------------------------
(* Program constants *)

MAX_RETRIES == 5
MaxDays == 365         \* the largest day count the form accepts
INITIAL_BACKOFF_DELAY_MS == 1000

MS_PER_SECOND == 1000
MS_PER_MINUTE == 1000 * 60
MS_PER_HOUR == 1000 * 60 * 60
MS_PER_DAY == 1000 * 60 * 60 * 24

NoDate == 0            \* targetDate === null
NoDay == 0 - 1         \* lastGeneratedDayRef.current === null
NoUser == ""           \* user === null

Uids == {"u1"}

\* loadTargetDate is called by the auth listener and by the continuation of
\* signInAnonymously: at most twice
MaxLoads == 1 + 1

ZeroTime == [days |-> 0, hours |-> 0, minutes |-> 0, seconds |-> 0]

EXAM_MOTIVATION == "Congratulations! Your exam day has arrived. You've prepared well - now go show what you know!"
FINISHED_TIP == "Take a deep breath, trust your knowledge and trust in God. You've got this!"
EXAM_TODAY_TIP == "Take a deep breath and trust your knowledge and Trust in God. You've got this!"
ENTER_DAYS_MOTIVATION == "Enter days to start your exam countdown and get personalized motivation!"
ENTER_DAYS_TIP == "Enter days to start your exam countdown and get personalized study tips!"
GENERATING_MOTIVATION == "Generating personalized motivation..."
GENERATING_TIP == "Generating personalized study tip..."
FAILED_MOTIVATION == "Failed to load motivation. Please try again later."
FAILED_TIP == "Failed to load tips. Please try again later."
NO_MOTIVATION == "No motivation found."
NO_TIP == "No study tip found."
AUTH_FAILED_MOTIVATION == "Failed to load. Please check your internet connection."
AUTH_FAILED_TIP == "Failed to load. Please try refreshing the page."
ERR_INVALID_DAYS == "Please enter a valid number of days (e.g., 75)."
ERR_TOO_MANY_DAYS == "Please enter a number less than 365 days to ensure relevance."
ERR_AUTH_NOT_READY == "Authentication not ready. Please wait a moment and try again."

----------------------------------------------------------------------------
(* Wall clock: the instants at which handlers are observed *)

T0 == 10 * MS_PER_DAY + 10 * MS_PER_HOUR      \* day 10, 10:00:00.000

ClockOffsets ==
  << 0,
     21 * MS_PER_HOUR >>                        \* day 11, 07:00:00.000

LastClock == Len(ClockOffsets)

\* one second later, when every deadline of 07:00 has a whole day less left
DayChangeOffset == 21 * MS_PER_HOUR + MS_PER_SECOND    \* day 11, 07:00:01.000

DayChangeClock == LastClock + 1

Now(c) == T0 + (IF c = DayChangeClock THEN DayChangeOffset ELSE ClockOffsets[c])

now == Now(clk)

----------------------------------------------------------------------------
(* calculateTimeLeft *)

\* a breakdown whose seconds are rounded up, so that a deadline still ahead
\* never shows as all zero
calculateTimeLeftCeilSeconds(target, current) ==
  LET difference == target - current IN
  IF difference <= 0 THEN ZeroTime
  ELSE [days    |-> difference \div MS_PER_DAY,
        hours   |-> (difference % MS_PER_DAY) \div MS_PER_HOUR,
        minutes |-> (difference % MS_PER_HOUR) \div MS_PER_MINUTE,
        seconds |-> ((difference % MS_PER_MINUTE) + MS_PER_SECOND - 1) \div MS_PER_SECOND]

\* a breakdown without the test for a deadline that has passed
calculateTimeLeftUnclamped(target, current) ==
  LET difference == target - current IN
  [days    |-> difference \div MS_PER_DAY,
   hours   |-> (difference % MS_PER_DAY) \div MS_PER_HOUR,
   minutes |-> (difference % MS_PER_HOUR) \div MS_PER_MINUTE,
   seconds |-> (difference % MS_PER_MINUTE) \div MS_PER_SECOND]

calculateTimeLeft(target, current) ==
  LET difference == target - current IN
  IF difference <= 0 THEN ZeroTime
  ELSE [days    |-> difference \div MS_PER_DAY,
        hours   |-> (difference % MS_PER_DAY) \div MS_PER_HOUR,
        minutes |-> (difference % MS_PER_HOUR) \div MS_PER_MINUTE,
        seconds |-> (difference % MS_PER_MINUTE) \div MS_PER_SECOND]

IsZeroTime(t) == t.days = 0 /\ t.hours = 0 /\ t.minutes = 0 /\ t.seconds = 0

\* a flag that is never raised
IsExamDayInProgressNever(t) == FALSE

\* days === 0 && (hours > 0 || minutes > 0 || seconds > 0)
IsExamDayInProgress(t) ==
  t.days = 0 /\ (t.hours > 0 \/ t.minutes > 0 \/ t.seconds > 0)

----------------------------------------------------------------------------
(* getLlmPrompts *)

\* the buckets with their lower limits taken inclusive
getLlmPromptsInclusive(daysRemaining, isExamToday) ==
  IF isExamToday THEN
    [framing |-> "examToday", days |-> NoDay,
     motivationPrompt |-> EXAM_MOTIVATION, studyTipPrompt |-> EXAM_TODAY_TIP]
  ELSE IF daysRemaining = 1 THEN
    [framing |-> "finalDayBefore", days |-> NoDay,
     motivationPrompt |-> "final motivational message, exam is tomorrow",
     studyTipPrompt |-> "last-minute study tip, exam is tomorrow"]
  ELSE IF daysRemaining >= 50 THEN
    [framing |-> "longHorizon", days |-> daysRemaining,
     motivationPrompt |-> "long-term preparation and avoiding burnout",
     studyTipPrompt |-> "clear, achievable milestones and starting early"]
  ELSE IF daysRemaining >= 30 THEN
    [framing |-> "midHorizon", days |-> daysRemaining,
     motivationPrompt |-> "consistent effort and building a solid foundation",
     studyTipPrompt |-> "effective planning, resource utilization, and regular review"]
  ELSE IF daysRemaining >= 7 THEN
    [framing |-> "shortHorizon", days |-> daysRemaining,
     motivationPrompt |-> "perseverance in the mid-stage and tackling weak areas",
     studyTipPrompt |-> "active learning, practice questions, and understanding concepts"]
  ELSE IF daysRemaining > 0 THEN
    [framing |-> "finalStretch", days |-> daysRemaining,
     motivationPrompt |-> "final stretch, boost confidence for the last push",
     studyTipPrompt |-> "review strategies, mock exams, and managing stress"]
  ELSE
    [framing |-> "placeholder", days |-> NoDay,
     motivationPrompt |-> ENTER_DAYS_MOTIVATION, studyTipPrompt |-> ENTER_DAYS_TIP]

getLlmPrompts(daysRemaining, isExamToday) ==
  IF isExamToday THEN
    [framing |-> "examToday", days |-> NoDay,
     motivationPrompt |-> EXAM_MOTIVATION, studyTipPrompt |-> EXAM_TODAY_TIP]
  ELSE IF daysRemaining = 1 THEN
    [framing |-> "finalDayBefore", days |-> NoDay,
     motivationPrompt |-> "final motivational message, exam is tomorrow",
     studyTipPrompt |-> "last-minute study tip, exam is tomorrow"]
  ELSE IF daysRemaining > 50 THEN
    [framing |-> "longHorizon", days |-> daysRemaining,
     motivationPrompt |-> "long-term preparation and avoiding burnout",
     studyTipPrompt |-> "clear, achievable milestones and starting early"]
  ELSE IF daysRemaining > 30 THEN
    [framing |-> "midHorizon", days |-> daysRemaining,
     motivationPrompt |-> "consistent effort and building a solid foundation",
     studyTipPrompt |-> "effective planning, resource utilization, and regular review"]
  ELSE IF daysRemaining > 7 THEN
    [framing |-> "shortHorizon", days |-> daysRemaining,
     motivationPrompt |-> "perseverance in the mid-stage and tackling weak areas",
     studyTipPrompt |-> "active learning, practice questions, and understanding concepts"]
  ELSE IF daysRemaining > 0 THEN
    [framing |-> "finalStretch", days |-> daysRemaining,
     motivationPrompt |-> "final stretch, boost confidence for the last push",
     studyTipPrompt |-> "review strategies, mock exams, and managing stress"]
  ELSE
    [framing |-> "placeholder", days |-> NoDay,
     motivationPrompt |-> ENTER_DAYS_MOTIVATION, studyTipPrompt |-> ENTER_DAYS_TIP]

----------------------------------------------------------------------------
(* Remote generation service: what one generateContent call can settle to *)

FENCE_OPEN == "[fence json newline]"     \* the three backticks, json and a line feed
FENCE_CLOSE == "[newline fence]"         \* a line feed and the three backticks
JSON_BOTH == "{motivation: m, studyTip: t}"
JSON_NO_KEYS == "{}"
FENCE_PLAIN == "[fence newline]"         \* an opening fence without the json tag
LLM_MOTIVATION == "m"
LLM_TIP == "t"

ERR_429 == "[GoogleGenerativeAI Error]: Error fetching: [429 (Too Many Requests)] quota exceeded"
ERR_500 == "[GoogleGenerativeAI Error]: Error fetching: [500 (Internal Server Error)]"
ERR_SYNTAX == "Unexpected token in JSON"

ResponseTexts ==
  { <<JSON_BOTH>>,
    <<FENCE_OPEN, JSON_BOTH, FENCE_CLOSE>>,
    <<JSON_NO_KEYS>>,
    <<"Sure! Here is your JSON">>,
    <<FENCE_PLAIN, JSON_BOTH, FENCE_CLOSE>> }

Settlements ==
  [ok : {TRUE}, text : ResponseTexts, message : {""}]
    \cup [ok : {FALSE}, text : {<<>>}, message : {ERR_429, ERR_500, ""}]

RECURSIVE TrimStart(_)
TrimStart(s) == IF s # <<>> /\ Head(s) = " " THEN TrimStart(Tail(s)) ELSE s

RECURSIVE TrimEnd(_)
TrimEnd(s) ==
  IF s # <<>> /\ s[Len(s)] = " " THEN TrimEnd(SubSeq(s, 1, Len(s) - 1)) ELSE s

\* text.replace(/[fence]json\n|\n[fence]/g, "").trim()
CleanText(text) ==
  TrimEnd(TrimStart(SelectSeq(text, LAMBDA tok : tok \notin {FENCE_OPEN, FENCE_CLOSE})))

\* JSON.parse: ok = FALSE stands for the SyntaxError it throws
JsonParse(cleaned) ==
  IF cleaned = <<JSON_BOTH>>
    THEN [ok |-> TRUE, motivation |-> LLM_MOTIVATION, studyTip |-> LLM_TIP]
  ELSE IF cleaned = <<JSON_NO_KEYS>>
    THEN [ok |-> TRUE, motivation |-> "", studyTip |-> ""]
  ELSE [ok |-> FALSE, motivation |-> "", studyTip |-> ""]

\* error.message && error.message.includes("429 (Too Many Requests)")
IsRateLimit(message) == message = ERR_429

RECURSIVE Pow2(_)
Pow2(n) == IF n = 0 THEN 1 ELSE 2 * Pow2(n - 1)

\* a linear backoff in place of the doubling one
BackoffDelayLinear(attempt) == INITIAL_BACKOFF_DELAY_MS * (attempt + 1)

BackoffDelay(attempt) == INITIAL_BACKOFF_DELAY_MS * Pow2(attempt)

\* a retry of every failure, whatever its message
ShouldRetryAnyError(message, attempt) == attempt < MAX_RETRIES

ShouldRetry(message, attempt) == IsRateLimit(message) /\ attempt < MAX_RETRIES

----------------------------------------------------------------------------
(* generateLlmContent, up to its first await.  c is the record of the refs *)
(* and content state the callback touches; captured is the appState its    *)
(* closure was created with (useCallback(..., [appState])).                *)

Content ==
  [motivation |-> currentMotivation, studyTip |-> currentStudyTip,
   isLoadingMessage |-> isLoadingMessage, lastGeneratedDay |-> lastGeneratedDayRef,
   isGenerating |-> isGeneratingRef, gens |-> gens]

NewGen(daysRemaining, prompts) ==
  [days |-> daysRemaining, framing |-> prompts.framing, attempt |-> 0,
   phase |-> "request", requests |-> 1, delays |-> <<>>, rateLimits |-> 0,
   applied |-> 0, cause |-> "", stale |-> FALSE]

NoGen ==
  [days |-> NoDay, framing |-> "", attempt |-> 0, phase |-> "", requests |-> 0,
   delays |-> <<>>, rateLimits |-> 0, applied |-> 0, cause |-> "", stale |-> FALSE]

\* a guard that reads the flag only, whatever state the closure captured
GenerateGuardFlagOnly(captured, c) == c.isGenerating

\* if (appState !== "active" || isGeneratingRef.current) return
GenerateGuard(captured, c) == captured # "active" \/ c.isGenerating

\* the callback without its early return for the exam day
generateLlmContentAlwaysRequests(captured, daysRemaining, isExamToday, c) ==
  IF GenerateGuard(captured, c) THEN c
  ELSE IF c.lastGeneratedDay = daysRemaining /\ ~isExamToday THEN c
  ELSE
    [c EXCEPT !.isGenerating = TRUE, !.isLoadingMessage = TRUE,
              !.motivation = GENERATING_MOTIVATION, !.studyTip = GENERATING_TIP,
              !.gens = Append(@, NewGen(daysRemaining,
                                        getLlmPrompts(daysRemaining, isExamToday)))]

generateLlmContent(captured, daysRemaining, isExamToday, c) ==
  IF GenerateGuard(captured, c) THEN c
  ELSE IF isExamToday THEN
    LET p == getLlmPrompts(daysRemaining, isExamToday) IN
    [c EXCEPT !.motivation = p.motivationPrompt, !.studyTip = p.studyTipPrompt,
              !.isLoadingMessage = FALSE, !.lastGeneratedDay = daysRemaining]
  ELSE IF c.lastGeneratedDay = daysRemaining /\ ~isExamToday THEN c
  ELSE
    [c EXCEPT !.isGenerating = TRUE, !.isLoadingMessage = TRUE,
              !.motivation = GENERATING_MOTIVATION, !.studyTip = GENERATING_TIP,
              !.gens = Append(@, NewGen(daysRemaining,
                                        getLlmPrompts(daysRemaining, isExamToday)))]

SetContent(c) ==
  /\ currentMotivation' = c.motivation
  /\ currentStudyTip' = c.studyTip
  /\ isLoadingMessage' = c.isLoadingMessage
  /\ lastGeneratedDayRef' = c.lastGeneratedDay
  /\ isGeneratingRef' = c.isGenerating
  /\ gens' = c.gens

ContentUnchanged ==
  UNCHANGED <<currentMotivation, currentStudyTip, isLoadingMessage,
              lastGeneratedDayRef, isGeneratingRef, gens>>

----------------------------------------------------------------------------
(* The tick effect: useEffect(..., [targetDate, generateLlmContent,        *)
(* appState, deleteTargetDate, user]).  When a dependency changed, the     *)
(* cleanup clears the interval the effect owned and the body sets a new    *)
(* one if a deadline is set and the state is "active".                     *)

TickEffectCondition(target, state) == target # NoDate /\ state = "active"

\* the effect without its cleanup: the interval it owned is left running
TickEffectNoCleanup(live, depsChanged, target, state) ==
  IF depsChanged
    THEN live + (IF TickEffectCondition(target, state) THEN 1 ELSE 0)
    ELSE live

TickEffect(live, depsChanged, target, state) ==
  IF depsChanged
    THEN (IF TickEffectCondition(target, state) THEN 1 ELSE 0)
    ELSE live

\* depsChanged: the handler set targetDate or user (a new object each time)
RunTickEffect(depsChanged) ==
  timers' = TickEffect(timers, depsChanged \/ appState' # appState,
                       targetDate', appState')

\* doneDay: the day-bucket a generation begun in the present countdown has
\* succeeded for; forgotten when the countdown ends or a deadline is set
DoneDay(op, g) ==
  IF op = "genSuccess" /\ ~g.stale THEN g.days
  ELSE IF op \in {"load", "tickFinished", "started", "startedUnsaved", "reset",
                  "resetUndeleted"} THEN NoDay
  ELSE ev.doneDay

Event(op, g, snap) ==
  [op |-> op, from |-> appState, gen |-> g, snap |-> snap, doneDay |-> DoneDay(op, g)]

----------------------------------------------------------------------------
(* Firestore: one document per uid, {timestamp, setAt} *)

NoDoc == [exists |-> FALSE, timestamp |-> NoDate, setAt |-> NoDate]

Doc(timestamp, setAt) == [exists |-> TRUE, timestamp |-> timestamp, setAt |-> setAt]

\* what getDoc settles to: a snapshot of the document, or a rejection
Snapshot(d) == [exists |-> d.exists, failed |-> FALSE, timestamp |-> d.timestamp]

GetDocRejected == [exists |-> FALSE, failed |-> TRUE, timestamp |-> NoDate]

NoSnap == [exists |-> FALSE, failed |-> FALSE, timestamp |-> NoDate]

\* documents a previous session may have left behind
InitialDocs ==
  { NoDoc,
    Doc(T0 - MS_PER_HOUR, T0 - 2 * MS_PER_DAY),
    Doc(T0 + 21 * MS_PER_HOUR, T0 - MS_PER_DAY) }

\* a deadline three days ahead: 2 days 21 hours are left at T0
DayChangeDocs == { Doc(T0 + 69 * MS_PER_HOUR, T0 - MS_PER_HOUR) }

\* a write that leaves a document that already exists as it is
setDocKeepsExisting(st, uid, date, current) ==
  IF st[uid].exists THEN st ELSE [st EXCEPT ![uid] = Doc(date, current)]

setDoc(st, uid, date, current) == [st EXCEPT ![uid] = Doc(date, current)]

\* a delete that reports success and removes nothing
deleteDocKeepsRecord(st, uid) == st

deleteDoc(st, uid) == [st EXCEPT ![uid] = NoDoc]

\* a persistence call whose rejection reaches the caller, which then stops
ReturnsOnlyWhenSettled(settled) == settled

\* the try/catch of saveTargetDate and deleteTargetDate: a rejection is
\* logged and the call returns normally, so the awaiting handler goes on
ReturnsNormally(settled) == TRUE

\* saveTargetDate: returns at once without a uid; a rejected setDoc is
\* logged and swallowed
saveTargetDate(st, date, uid, current, settled) ==
  IF uid = NoUser THEN st
  ELSE IF settled THEN setDoc(st, uid, date, current)
  ELSE st

\* deleteTargetDate: returns at once without a uid; a rejected deleteDoc is
\* logged and swallowed
deleteTargetDate(st, uid, settled) ==
  IF uid = NoUser THEN st
  ELSE IF settled THEN deleteDoc(st, uid)
  ELSE st

----------------------------------------------------------------------------
(* Number.parseInt on the text of the day input, one character per element *)

DigitChars == <<"0", "1", "2", "3", "4", "5", "6", "7", "8", "9">>

IsDigit(ch) == \E d \in 1..Len(DigitChars) : DigitChars[d] = ch

DigitValue(ch) == (CHOOSE d \in 1..Len(DigitChars) : DigitChars[d] = ch) - 1

RECURSIVE ParseDigits(_, _)
ParseDigits(s, acc) ==
  IF s = <<>> \/ ~IsDigit(Head(s)) THEN acc
  ELSE ParseDigits(Tail(s), acc * 10 + DigitValue(Head(s)))

ParseInt(s) ==
  LET t == TrimStart(s)
      negative == t # <<>> /\ Head(t) = "-"
      u == IF t # <<>> /\ Head(t) \in {"-", "+"} THEN Tail(t) ELSE t
  IN IF u = <<>> \/ ~IsDigit(Head(u))
       THEN [nan |-> TRUE, val |-> 0]
       ELSE [nan |-> FALSE,
             val |-> IF negative THEN 0 - ParseDigits(u, 0) ELSE ParseDigits(u, 0)]

\* the text the number input holds for a non-negative integer
RECURSIVE ToDigits(_)
ToDigits(n) ==
  IF n < 10 THEN <<DigitChars[n + 1]>>
  ELSE Append(ToDigits(n \div 10), DigitChars[(n % 10) + 1])

\* the deadline is kept in milliseconds, which bounds the accepted counts
\* the controller is run with; the whole range 1..365 is put to StartError
DayInputs ==
  { <<>>, <<"a">>, <<"-", "1">>, <<"0">>, <<"1">>, <<"2">>, <<"3", "6", "6">> }

\* a deadline days * 24 hours after the submission, at whatever time that is
TargetForSameTime(current, days) == current + days * MS_PER_DAY

\* new Date(); setDate(getDate() + days); setHours(7, 0, 0, 0), local time
\* taken as UTC without daylight saving
TargetFor(current, days) ==
  (current \div MS_PER_DAY) * MS_PER_DAY + days * MS_PER_DAY + 7 * MS_PER_HOUR

RemoveAt(s, i) == SubSeq(s, 1, i - 1) \o SubSeq(s, i + 1, Len(s))

\* no function is applied on its own while the controller runs
NoProbe == [fn |-> ""]

----------------------------------------------------------------------------
InitFrom(docs) ==
  /\ clk = 1
  /\ store \in [Uids -> docs]
  /\ authPhase = "pending"
  /\ authDue = {}
  /\ user = NoUser
  /\ loads = <<>>
  /\ appState = "loading"
  /\ targetDate = NoDate
  /\ timeLeft = ZeroTime
  /\ currentMotivation = ""
  /\ currentStudyTip = ""
  /\ isLoadingMessage = FALSE
  /\ inputError = ""
  /\ lastGeneratedDayRef = NoDay
  /\ isGeneratingRef = FALSE
  /\ gens = <<>>
  /\ timers = 0
  /\ scheduledDeletes = <<>>
  /\ pendingStarts = <<>>
  /\ pendingResets = <<>>
  /\ userActions = 0
  /\ ev = [op |-> "mount", from |-> "loading", gen |-> NoGen, snap |-> NoSnap,
           doneDay |-> NoDay]
  /\ probe = NoProbe

Init == InitFrom(InitialDocs)

----------------------------------------------------------------------------
(* Auth listener and initial load *)

\* the appState captured by the callbacks of the mount effect (deps [])
MountAppState == "loading"

LoadCall(uid) == [uid |-> uid, captured |-> MountAppState]

\* loadTargetDate up to its await: the early returns
LoadStarts(uid, captured) == uid # NoUser /\ captured # "finished"

AuthStateChanged(currentUser) ==
  /\ \/ authPhase = "pending"
     \/ authPhase = "ready" /\ "listener" \in authDue /\ currentUser # NoUser
  /\ IF currentUser # NoUser
       THEN /\ user' = currentUser
            /\ loads' = IF LoadStarts(currentUser, MountAppState)
                          THEN Append(loads, LoadCall(currentUser)) ELSE loads
            /\ authPhase' = "ready"
            /\ authDue' = authDue \ {"listener"}
       ELSE /\ authPhase' = "signingIn"
            /\ UNCHANGED <<user, loads, authDue>>
  /\ ev' = Event("authStateChanged", NoGen, NoSnap)
  /\ UNCHANGED <<appState, targetDate>>
  /\ RunTickEffect(user' # NoUser)
  /\ ContentUnchanged
  /\ UNCHANGED <<clk, store, timeLeft, inputError, scheduledDeletes,
                 pendingStarts, pendingResets, userActions>>
  /\ UNCHANGED probe

SignInAnonymouslyResolved(uid) ==
  /\ authPhase = "signingIn"
  /\ user' = uid
  /\ loads' = IF LoadStarts(uid, MountAppState) THEN Append(loads, LoadCall(uid)) ELSE loads
  /\ authPhase' = "ready"
  /\ authDue' = {"listener"}
  /\ ev' = Event("signedIn", NoGen, NoSnap)
  /\ UNCHANGED <<appState, targetDate>>
  /\ RunTickEffect(TRUE)
  /\ ContentUnchanged
  /\ UNCHANGED <<clk, store, timeLeft, inputError, scheduledDeletes,
                 pendingStarts, pendingResets, userActions>>
  /\ UNCHANGED probe

SignInAnonymouslyRejected ==
  /\ authPhase = "signingIn"
  /\ authPhase' = "failed"
  /\ appState' = "error"
  /\ currentMotivation' = AUTH_FAILED_MOTIVATION
  /\ currentStudyTip' = AUTH_FAILED_TIP
  /\ ev' = Event("signInFailed", NoGen, NoSnap)
  /\ UNCHANGED <<user, targetDate>>
  /\ RunTickEffect(FALSE)
  /\ UNCHANGED <<clk, store, authDue, loads, timeLeft, isLoadingMessage, inputError,
                 lastGeneratedDayRef, isGeneratingRef, gens, scheduledDeletes,
                 pendingStarts, pendingResets, userActions>>
  /\ UNCHANGED probe

\* a catch block that reports the failure as the "error" state
LoadCatchStateError == "error"

\* the state the catch block of loadTargetDate sets
LoadCatchState == "initial"

LoadCatchMessage == ""

\* the comparison the wrong way round
LoadedDateInPast(timestamp, current) == timestamp < current

\* loadedDate.getTime() > new Date().getTime()
LoadedDateInFuture(timestamp, current) == timestamp > current

\* await getDoc(docRef) settles, to a snapshot of the document or to a
\* rejection, and loadTargetDate goes on (the read and the resumption are
\* one step)
LoadTargetDateResume(i, rejected) ==
  /\ i \in 1..Len(loads)
  /\ LET l == loads[i]
         snap == IF rejected THEN GetDocRejected ELSE Snapshot(store[l.uid])
     IN /\ loads' = RemoveAt(loads, i)
        /\ ev' = Event("load", NoGen, snap)
        /\ IF snap.failed THEN
             /\ appState' = LoadCatchState
             /\ currentMotivation' = LoadCatchMessage
             /\ currentStudyTip' = LoadCatchMessage
             /\ UNCHANGED <<targetDate, timeLeft, isLoadingMessage, lastGeneratedDayRef,
                            isGeneratingRef, gens, scheduledDeletes>>
             /\ RunTickEffect(FALSE)
           ELSE IF ~snap.exists THEN
             /\ appState' = "initial"
             /\ currentMotivation' = ENTER_DAYS_MOTIVATION
             /\ currentStudyTip' = ENTER_DAYS_TIP
             /\ UNCHANGED <<targetDate, timeLeft, isLoadingMessage, lastGeneratedDayRef,
                            isGeneratingRef, gens, scheduledDeletes>>
             /\ RunTickEffect(FALSE)
           ELSE IF LoadedDateInFuture(snap.timestamp, now) THEN
             LET remaining == calculateTimeLeft(snap.timestamp, now) IN
             /\ targetDate' = snap.timestamp
             /\ appState' = "active"
             /\ timeLeft' = remaining
             /\ SetContent(generateLlmContent(l.captured, remaining.days,
                                              IsExamDayInProgress(remaining), Content))
             /\ UNCHANGED scheduledDeletes
             /\ RunTickEffect(TRUE)
           ELSE
             /\ appState' = "finished"
             /\ currentMotivation' = EXAM_MOTIVATION
             /\ currentStudyTip' = FINISHED_TIP
             /\ isLoadingMessage' = FALSE
             /\ scheduledDeletes' = Append(scheduledDeletes, l.uid)
             /\ UNCHANGED <<targetDate, timeLeft, lastGeneratedDayRef, isGeneratingRef, gens>>
             /\ RunTickEffect(FALSE)
  /\ UNCHANGED <<clk, store, authPhase, authDue, user, inputError, pendingStarts,
                 pendingResets, userActions>>
  /\ UNCHANGED probe

----------------------------------------------------------------------------
(* The tick loop *)

\* the guard negated: the deletion is never scheduled for a signed-in user
SchedulesDeleteWithoutUser(u) == u = NoUser

\* if (user?.uid) setTimeout(() => deleteTargetDate(user.uid), 1000)
SchedulesDelete(u) == u # NoUser

\* the appState captured by the interval callback: the effect body only
\* sets the interval when appState === "active"
TickAppState == "active"

\* a trigger on the change of the day only, once per day-bucket
TickTriggersOnDayChange(days, lastDay, examDay) == days # lastDay

\* newTimeLeft.days !== lastGeneratedDayRef.current || isExamDayInProgress
TickTriggers(days, lastDay, examDay) == days # lastDay \/ examDay

Tick ==
  /\ timers > 0
  /\ LET newTimeLeft == calculateTimeLeft(targetDate, now) IN
     /\ timeLeft' = newTimeLeft
     /\ IF IsZeroTime(newTimeLeft) THEN
          /\ appState' = "finished"
          /\ currentMotivation' = EXAM_MOTIVATION
          /\ currentStudyTip' = FINISHED_TIP
          /\ isLoadingMessage' = FALSE
          /\ scheduledDeletes' = IF SchedulesDelete(user)
                                   THEN Append(scheduledDeletes, user)
                                   ELSE scheduledDeletes
          /\ timers' = TickEffect(timers - 1, TRUE, targetDate, "finished")
          /\ ev' = Event("tickFinished", NoGen, NoSnap)
          /\ UNCHANGED <<lastGeneratedDayRef, isGeneratingRef, gens>>
        ELSE
          LET isExamDayInProgress == IsExamDayInProgress(newTimeLeft) IN
          /\ SetContent(IF TickTriggers(newTimeLeft.days, lastGeneratedDayRef,
                                          isExamDayInProgress)
                          THEN generateLlmContent(TickAppState, newTimeLeft.days,
                                                  isExamDayInProgress, Content)
                          ELSE Content)
          /\ ev' = Event("tick", NoGen, NoSnap)
          /\ UNCHANGED <<appState, timers, scheduledDeletes>>
  /\ UNCHANGED <<clk, store, authPhase, authDue, user, loads, targetDate, inputError,
                 pendingStarts, pendingResets, userActions>>
  /\ UNCHANGED probe

----------------------------------------------------------------------------
(* The retry loop of generateLlmContent *)

\* a failure path that returns before the flag is cleared
FlagAfterLoopKeptOnFailure(cause) == cause # "success"

\* isGeneratingRef.current after the loop, by the way the loop was left
FlagAfterLoop(cause) == FALSE

\* await llmModel.generateContent(fullPrompt) settles for call i
GenerateContentSettled(i, r) ==
  /\ i \in 1..Len(gens)
  /\ gens[i].phase = "request"
  /\ LET g == gens[i]
         parsed == IF r.ok THEN JsonParse(CleanText(r.text)) ELSE JsonParse(<<>>)
         message == IF r.ok THEN ERR_SYNTAX ELSE r.message
     IN IF r.ok /\ parsed.ok THEN
          LET done == [g EXCEPT !.phase = "done", !.applied = @ + 1, !.cause = "success"] IN
          /\ currentMotivation' = IF parsed.motivation # "" THEN parsed.motivation
                                  ELSE NO_MOTIVATION
          /\ currentStudyTip' = IF parsed.studyTip # "" THEN parsed.studyTip ELSE NO_TIP
          /\ lastGeneratedDayRef' = g.days
          /\ isLoadingMessage' = FALSE
          /\ isGeneratingRef' = FlagAfterLoop(done.cause)
          /\ gens' = RemoveAt(gens, i)
          /\ ev' = Event("genSuccess", done, NoSnap)
        ELSE IF ShouldRetry(message, g.attempt) THEN
          /\ gens' = [gens EXCEPT ![i] =
                        [g EXCEPT !.phase = "backoff",
                                  !.rateLimits = IF IsRateLimit(message) THEN @ + 1 ELSE @,
                                  !.delays = Append(@, BackoffDelay(g.attempt))]]
          /\ ev' = Event("genBackoff", gens'[i], NoSnap)
          /\ UNCHANGED <<currentMotivation, currentStudyTip, lastGeneratedDayRef,
                         isLoadingMessage, isGeneratingRef>>
        ELSE
          LET done == [g EXCEPT !.phase = "done", !.applied = @ + 1,
                                !.rateLimits = IF IsRateLimit(message) THEN @ + 1 ELSE @,
                                !.cause = IF IsRateLimit(message) THEN "rateLimit"
                                          ELSE IF r.ok THEN "malformed" ELSE "error"] IN
          /\ currentMotivation' = FAILED_MOTIVATION
          /\ currentStudyTip' = FAILED_TIP
          /\ isLoadingMessage' = FALSE
          /\ isGeneratingRef' = FlagAfterLoop(done.cause)
          /\ gens' = RemoveAt(gens, i)
          /\ ev' = Event("genFailed", done, NoSnap)
          /\ UNCHANGED lastGeneratedDayRef
  /\ UNCHANGED <<clk, store, authPhase, authDue, user, loads, appState, targetDate,
                 timeLeft, inputError, timers, scheduledDeletes, pendingStarts,
                 pendingResets, userActions>>
  /\ UNCHANGED probe

\* the setTimeout of the backoff fires: attempt++ and the next request
BackoffElapsed(i) ==
  /\ i \in 1..Len(gens)
  /\ gens[i].phase = "backoff"
  /\ gens[i].attempt + 1 <= MAX_RETRIES
  /\ gens' = [gens EXCEPT ![i].phase = "request", ![i].attempt = @ + 1,
                          ![i].requests = @ + 1]
  /\ ev' = Event("genRetry", gens'[i], NoSnap)
  /\ UNCHANGED <<clk, store, authPhase, authDue, user, loads, appState, targetDate,
                 timeLeft, currentMotivation, currentStudyTip, isLoadingMessage,
                 inputError, lastGeneratedDayRef, isGeneratingRef, timers,
                 scheduledDeletes, pendingStarts, pendingResets, userActions>>
  /\ UNCHANGED probe

----------------------------------------------------------------------------
(* handleStartCountdown *)

\* a validation without the test for a signed-in user
StartErrorNoAuthCheck(examDays, u) ==
  LET days == ParseInt(examDays) IN
  IF examDays = <<>> \/ days.nan \/ days.val <= 0 THEN ERR_INVALID_DAYS
  ELSE IF days.val > 365 THEN ERR_TOO_MANY_DAYS
  ELSE ""

\* a validation that takes the text of its own message, "less than 365",
\* at its word
StartErrorBelow365(examDays, u) ==
  LET days == ParseInt(examDays) IN
  IF examDays = <<>> \/ days.nan \/ days.val <= 0 THEN ERR_INVALID_DAYS
  ELSE IF days.val >= 365 THEN ERR_TOO_MANY_DAYS
  ELSE IF u = NoUser THEN ERR_AUTH_NOT_READY
  ELSE ""

\* the validation of the day input: the inline error, "" when accepted
StartError(examDays, u) ==
  LET days == ParseInt(examDays) IN
  IF examDays = <<>> \/ days.nan \/ days.val <= 0 THEN ERR_INVALID_DAYS
  ELSE IF days.val > 365 THEN ERR_TOO_MANY_DAYS
  ELSE IF u = NoUser THEN ERR_AUTH_NOT_READY
  ELSE ""

\* up to await saveTargetDate(target, user.uid); the form is rendered only
\* in the "initial" state
HandleStartCountdown(examDays) ==
  /\ appState = "initial"
  /\ userActions < MaxUserActions
  /\ userActions' = userActions + 1
  /\ inputError' = StartError(examDays, user)
  /\ IF inputError' = ""
       THEN /\ pendingStarts' =
                 Append(pendingStarts,
                        [days |-> ParseInt(examDays).val,
                         target |-> TargetFor(now, ParseInt(examDays).val),
                         uid |-> user, captured |-> appState])
            /\ ev' = Event("startSubmitted", NoGen, NoSnap)
       ELSE /\ UNCHANGED pendingStarts
            /\ ev' = Event("startRejected", NoGen, NoSnap)
  /\ UNCHANGED <<clk, store, authPhase, authDue, user, loads, appState, targetDate,
                 timeLeft, timers, scheduledDeletes, pendingResets>>
  /\ ContentUnchanged
  /\ UNCHANGED probe

\* setDoc settles (saved, or rejected and logged) and the handler goes on
StartResume(i, saved) ==
  /\ i \in 1..Len(pendingStarts)
  /\ LET p == pendingStarts[i]
         initialTimeLeft == calculateTimeLeft(p.target, now)
     IN /\ store' = saveTargetDate(store, p.target, p.uid, now, saved)
        /\ pendingStarts' = RemoveAt(pendingStarts, i)
        /\ IF ReturnsNormally(saved) THEN
             /\ targetDate' = p.target
             /\ appState' = "active"
             /\ timeLeft' = initialTimeLeft
             /\ SetContent(generateLlmContent(p.captured, initialTimeLeft.days,
                                              IsExamDayInProgress(initialTimeLeft),
                                              [Content EXCEPT !.lastGeneratedDay = NoDay]))
             /\ ev' = Event(IF saved THEN "started" ELSE "startedUnsaved", NoGen, NoSnap)
             /\ RunTickEffect(TRUE)
           ELSE
             /\ ev' = Event("startedUnsaved", NoGen, NoSnap)
             /\ UNCHANGED <<targetDate, appState, timeLeft, timers>>
             /\ ContentUnchanged
  /\ UNCHANGED <<clk, authPhase, authDue, user, loads, inputError, scheduledDeletes,
                 pendingResets, userActions>>
  /\ UNCHANGED probe

----------------------------------------------------------------------------
(* confirmReset *)

\* a reset that forgets the last generated day
ResetContentKeepsDay(c) ==
  [c EXCEPT !.motivation = ENTER_DAYS_MOTIVATION,
            !.studyTip = ENTER_DAYS_TIP,
            !.isGenerating = FALSE,
            !.gens = [k \in DOMAIN c.gens |-> [c.gens[k] EXCEPT !.stale = TRUE]]]

\* the refs and content after the reset; calls still suspended in the retry
\* loop are left running and are marked as begun before the reset
ResetContent(c) ==
  [c EXCEPT !.motivation = ENTER_DAYS_MOTIVATION,
            !.studyTip = ENTER_DAYS_TIP,
            !.lastGeneratedDay = NoDay,
            !.isGenerating = FALSE,
            !.gens = [k \in DOMAIN c.gens |-> [c.gens[k] EXCEPT !.stale = TRUE]]]

ResetBody ==
  /\ targetDate' = NoDate
  /\ timeLeft' = ZeroTime
  /\ appState' = "initial"
  /\ inputError' = ""
  /\ SetContent(ResetContent(Content))
  /\ RunTickEffect(TRUE)

\* a reset that does not call deleteTargetDate and so never suspends
AwaitsDeleteNever(u) == FALSE

\* if (user?.uid) await deleteTargetDate(user.uid)
AwaitsDelete(u) == u # NoUser

\* the reset button is rendered by the finished view and by the countdown
\* view (every state but "loading" and "initial")
ConfirmReset ==
  /\ appState \in {"active", "finished", "error"}
  /\ userActions < MaxUserActions
  /\ userActions' = userActions + 1
  /\ IF AwaitsDelete(user)
       THEN /\ pendingResets' = Append(pendingResets, [uid |-> user])
            /\ ev' = Event("resetRequested", NoGen, NoSnap)
            /\ UNCHANGED <<appState, targetDate, timeLeft, inputError, timers>>
            /\ ContentUnchanged
       ELSE /\ ResetBody
            /\ ev' = Event("reset", NoGen, NoSnap)
            /\ UNCHANGED pendingResets
  /\ UNCHANGED <<clk, store, authPhase, authDue, user, loads, scheduledDeletes,
                 pendingStarts>>
  /\ UNCHANGED probe

\* deleteDoc settles (deleted, or rejected and logged) and the handler goes on
ResetResume(i, deleted) ==
  /\ i \in 1..Len(pendingResets)
  /\ store' = deleteTargetDate(store, pendingResets[i].uid, deleted)
  /\ pendingResets' = RemoveAt(pendingResets, i)
  /\ IF ReturnsNormally(deleted)
       THEN ResetBody
       ELSE /\ UNCHANGED <<targetDate, timeLeft, appState, inputError, timers>>
            /\ ContentUnchanged
  /\ ev' = Event(IF deleted THEN "reset" ELSE "resetUndeleted", NoGen, NoSnap)
  /\ UNCHANGED <<clk, authPhase, authDue, user, loads, scheduledDeletes, pendingStarts,
                 userActions>>
  /\ UNCHANGED probe

----------------------------------------------------------------------------
(* The deletion scheduled one second after the countdown finished *)

ScheduledDeleteFires(i, deleted) ==
  /\ i \in 1..Len(scheduledDeletes)
  /\ store' = deleteTargetDate(store, scheduledDeletes[i], deleted)
  /\ scheduledDeletes' = RemoveAt(scheduledDeletes, i)
  /\ ev' = Event("scheduledDelete", NoGen, NoSnap)
  /\ UNCHANGED <<clk, authPhase, authDue, user, loads, appState, targetDate, timeLeft,
                 inputError, timers, pendingStarts, pendingResets, userActions>>
  /\ ContentUnchanged
  /\ UNCHANGED probe

AdvanceClock ==
  /\ clk < LastClock
  /\ clk' = clk + 1
  /\ ev' = Event("clock", NoGen, NoSnap)
  /\ UNCHANGED <<store, authPhase, authDue, user, loads, appState, targetDate, timeLeft,
                 inputError, timers, scheduledDeletes, pendingStarts, pendingResets,
                 userActions>>
  /\ ContentUnchanged
  /\ UNCHANGED probe

----------------------------------------------------------------------------
\* the wall clock passes 07:00:00 of day 11, and with it a change of day for
\* every deadline
AdvanceClockAcrossDay ==
  /\ clk < DayChangeClock
  /\ clk' = DayChangeClock
  /\ ev' = Event("clock", NoGen, NoSnap)
  /\ UNCHANGED <<store, authPhase, authDue, user, loads, appState, targetDate, timeLeft,
                 inputError, timers, scheduledDeletes, pendingStarts, pendingResets,
                 userActions>>
  /\ ContentUnchanged
  /\ UNCHANGED probe

\* every handler and callback of the controller
ControllerNext ==
  \/ \E u \in Uids \cup {NoUser} : AuthStateChanged(u)
  \/ \E u \in Uids : SignInAnonymouslyResolved(u)
  \/ SignInAnonymouslyRejected
  \/ \E i \in 1..MaxLoads, rejected \in BOOLEAN : LoadTargetDateResume(i, rejected)
  \/ Tick
  \/ \E i \in 1..MaxGens, r \in Settlements : GenerateContentSettled(i, r)
  \/ \E i \in 1..MaxGens : BackoffElapsed(i)
  \/ \E d \in DayInputs : HandleStartCountdown(d)
  \/ \E i \in 1..MaxUserActions, saved \in BOOLEAN : StartResume(i, saved)
  \/ ConfirmReset
  \/ \E i \in 1..MaxUserActions, deleted \in BOOLEAN : ResetResume(i, deleted)
  \/ \E i \in 1..(MaxUserActions + 1), deleted \in BOOLEAN : ScheduledDeleteFires(i, deleted)

Next ==
  \/ ControllerNext
  \/ AdvanceClock

Spec == Init /\ [][Next]_vars

(* The same controller under the scheduling the runtime guarantees: a   *)
(* timer that was set fires, and a request that was sent settles.       *)
Fairness ==
  /\ \A i \in 1..MaxGens :
       /\ WF_vars(\E r \in Settlements : GenerateContentSettled(i, r))
       /\ WF_vars(BackoffElapsed(i))
  /\ WF_vars(\E i \in 1..(MaxUserActions + 1), deleted \in BOOLEAN :
               ScheduledDeleteFires(i, deleted))

LiveSpec == Init /\ [][Next]_vars /\ Fairness

(* The controller opened on a stored deadline three days ahead and observed *)
(* across a change of day.                                                  *)
DayChangeInit == InitFrom(DayChangeDocs)

DayChangeNext ==
  \/ ControllerNext
  \/ AdvanceClockAcrossDay

DayChangeSpec == DayChangeInit /\ [][DayChangeNext]_vars

\* setInterval keeps firing while the interval is set
TickFairness == WF_vars(Tick)

DayChangeLiveSpec == DayChangeInit /\ [][DayChangeNext]_vars /\ Fairness /\ TickFairness

\* time passes
ClockFairness == WF_vars(AdvanceClock)

(* The controller with its interval firing and time advancing to the last *)
(* instant observed.                                                      *)
CountdownLiveSpec == Init /\ [][Next]_vars /\ Fairness /\ TickFairness /\ ClockFairness

----------------------------------------------------------------------------
(* calculateTimeLeft and getLlmPrompts applied on their own, to arguments  *)
(* the controller is not run long enough to produce                        *)

controllerVars ==
  <<clk, store, authPhase, authDue, user, loads, appState, targetDate,
    timeLeft, currentMotivation, currentStudyTip, isLoadingMessage,
    inputError, lastGeneratedDayRef, isGeneratingRef, gens, timers,
    scheduledDeletes, pendingStarts, pendingResets, userActions, ev>>

MaxProbeDays == 2      \* whole days between the current time and the deadline

ProbeDeadlines == { T0, TargetFor(T0, 1) }

\* deadline minus current time: on and around every unit boundary, and past
ProbeDifferences ==
  { d * MS_PER_DAY + h * MS_PER_HOUR + m * MS_PER_MINUTE + s * MS_PER_SECOND + ms :
      d \in 0..MaxProbeDays, h \in {0, 1, 23}, m \in {0, 59}, s \in {0, 1, 59},
      ms \in {0, 1, 999} }
    \cup { 0 - 1, 0 - MS_PER_SECOND, 0 - MS_PER_DAY }

ApplyCalculateTimeLeft(target, difference) ==
  /\ probe' = [fn |-> "calculateTimeLeft", target |-> target,
               current |-> target - difference,
               result |-> calculateTimeLeft(target, target - difference)]
  /\ UNCHANGED controllerVars

ApplyGetLlmPrompts(daysRemaining, isExamToday) ==
  /\ probe' = [fn |-> "getLlmPrompts", daysRemaining |-> daysRemaining,
               isExamToday |-> isExamToday,
               result |-> getLlmPrompts(daysRemaining, isExamToday)]
  /\ UNCHANGED controllerVars

FnNext ==
  \/ \E target \in ProbeDeadlines, difference \in ProbeDifferences :
       ApplyCalculateTimeLeft(target, difference)
  \/ \E daysRemaining \in 0..MaxDays, isExamToday \in BOOLEAN :
       ApplyGetLlmPrompts(daysRemaining, isExamToday)

FnSpec == Init /\ [][FnNext]_vars

----------------------------------------------------------------------------
(* Properties *)

TypeOK ==
  /\ clk \in 1..DayChangeClock
  /\ appState \in {"loading", "initial", "active", "finished", "error"}
  /\ Len(gens) <= MaxGens
  /\ Len(loads) <= MaxLoads
  /\ Len(scheduledDeletes) <= MaxUserActions + 1
  /\ timers \in 0..1
  /\ userActions \in 0..MaxUserActions

GenEnded == ev.op \in {"genSuccess", "genFailed"}

TickRan == ev.op \in {"tick", "tickFinished"}

ResetDone == ev.op \in {"reset", "resetUndeleted"}

\* the delays of section 4.3, in seconds 1, 2, 4, 8, 16
ExpectedDelays == <<1000, 2000, 4000, 8000, 16000>>

\* C1: at most one generation request, a request waiting in a retry backoff
\* included, is outstanding in every reachable state.
C1_AtMostOneGenerationOutstanding == Len(gens) <= 1

\* C2: the result of a generation begun before a reset, success or terminal
\* failure, is not applied when it arrives after the reset: it changes
\* neither the displayed pair, nor the last generated day, nor the in-flight
\* flag.
C2_StaleResultNotApplied ==
  [][(ev'.op \in {"genSuccess", "genFailed"} /\ ev'.gen.stale)
       => UNCHANGED <<currentMotivation, currentStudyTip, lastGeneratedDayRef,
                      isGeneratingRef>>]_vars

\* C3: every generation that ends, by success, malformed payload, other
\* error or exhausted retries, leaves the in-flight flag cleared, and a flag
\* that is set is eventually cleared.
C3_FlagAlwaysCleared ==
  /\ [](GenEnded => ~isGeneratingRef)
  /\ (isGeneratingRef ~> ~isGeneratingRef)

C3_Witness == ev.op = "genFailed" /\ ev.gen.cause = "malformed" /\ ~isGeneratingRef

\* C4: after k rate-limit failures (0 <= k <= 5) and a success the call has
\* submitted k + 1 requests, waited the first k of 1s, 2s, 4s, 8s, 16s in
\* that order and applied one result; after 6 rate-limit failures it has
\* submitted 6 requests, waited those five delays and no more, and shows the
\* fallback pair.
C4_RetryBackoffSchedule ==
  /\ ev.op = "genSuccess" =>
       /\ ev.gen.rateLimits \in 0..5
       /\ ev.gen.requests = ev.gen.rateLimits + 1
       /\ ev.gen.delays = SubSeq(ExpectedDelays, 1, ev.gen.rateLimits)
       /\ ev.gen.applied = 1
  /\ (ev.op = "genFailed" /\ ev.gen.cause = "rateLimit") =>
       /\ ev.gen.rateLimits = 6
       /\ ev.gen.requests = 6
       /\ ev.gen.delays = ExpectedDelays
       /\ ev.gen.applied = 1
       /\ currentMotivation = FAILED_MOTIVATION
       /\ currentStudyTip = FAILED_TIP
  /\ \A i \in 1..Len(gens) : gens[i].applied = 0

C4_Witness ==
  ev.op = "genSuccess" /\ ev.gen.rateLimits = 5 /\ ev.gen.requests = 6

\* C5: a failure that is no rate-limit signal, a payload that cannot be
\* parsed included, ends the call without another request: the fallback pair
\* is displayed and the last generated day is left as it was; every request
\* after the first follows a rate-limit failure.
C5_NoRetryOnOtherFailure ==
  /\ [][(ev'.op = "genFailed" /\ ev'.gen.cause \in {"error", "malformed"})
          => /\ Len(gens') = Len(gens) - 1
             /\ ev'.gen.requests = ev'.gen.rateLimits + 1
             /\ currentMotivation' = FAILED_MOTIVATION
             /\ currentStudyTip' = FAILED_TIP
             /\ lastGeneratedDayRef' = lastGeneratedDayRef]_vars
  /\ [](\A i \in 1..Len(gens) :
          gens[i].requests = gens[i].rateLimits + (IF gens[i].phase = "request" THEN 1 ELSE 0))

C5_Witness ==
  ev.op = "genFailed" /\ ev.gen.cause = "malformed" /\ ev.gen.rateLimits = 2
    /\ currentMotivation = FAILED_MOTIVATION

\* C6: a load that succeeds while the state is "loading" leads to "active"
\* with the loaded deadline when that deadline is in the future, to
\* "initial" when there is no document, and to "finished" with a deletion of
\* the stale document scheduled when the deadline has passed; a scheduled
\* deletion is eventually invoked.
C6_LoadTransitions ==
  /\ []((ev.op = "load" /\ ev.from = "loading" /\ ~ev.snap.failed) =>
          IF ~ev.snap.exists THEN appState = "initial"
          ELSE IF ev.snap.timestamp > now
            THEN appState = "active" /\ targetDate = ev.snap.timestamp
            ELSE /\ appState = "finished"
                 /\ \E k \in 1..Len(scheduledDeletes) : scheduledDeletes[k] = user)
  /\ ((scheduledDeletes # <<>>) ~> (scheduledDeletes = <<>>))

C6_Witness ==
  /\ ev.op = "load" /\ ev.from = "loading" /\ ev.snap.exists
  /\ ev.snap.timestamp <= now
  /\ appState = "finished" /\ scheduledDeletes # <<>>

\* C7 as stated: a failure of the initial load moves the controller from
\* "loading" to the "error" state with a message displayed.
C7_LoadFailureFaults ==
  (ev.op = "load" /\ ev.from = "loading" /\ ev.snap.failed)
    => (appState = "error" /\ currentMotivation # "")

\* C7 as amended: a failure of the initial load moves the controller from
\* "loading" to "initial" with an empty content pair, never to "error" or
\* "active".
C7_LoadFailureAwaitsInput ==
  (ev.op = "load" /\ ev.from = "loading" /\ ev.snap.failed)
    => (appState = "initial" /\ currentMotivation = "" /\ currentStudyTip = "")

C7_Witness == ev.op = "load" /\ ev.from = "loading" /\ ev.snap.failed

\* C8: a tick that computes an all-zero remaining time moves the controller
\* to "finished" with no timer left and a deletion for the signed-in uid
\* scheduled; no tick runs in "finished"; the deletion is eventually invoked.
C8_TickReachesDeadline ==
  /\ [](ev.op = "tickFinished" =>
          /\ appState = "finished"
          /\ IsZeroTime(timeLeft)
          /\ timers = 0
          /\ user # NoUser
          /\ \E k \in 1..Len(scheduledDeletes) : scheduledDeletes[k] = user)
  /\ [](appState = "finished" => timers = 0)
  /\ [](TickRan => ev.from = "active")
  /\ ((scheduledDeletes # <<>>) ~> (scheduledDeletes = <<>>))

C8_Witness == ev.op = "tickFinished" /\ appState = "finished" /\ timers = 0

\* C9: a timer runs exactly when the state is "active" with a deadline set,
\* never more than one, and every tick runs from the "active" state.
C9_TimerIffCounting ==
  /\ (timers > 0) <=> (appState = "active" /\ targetDate # NoDate)
  /\ timers <= 1
  /\ TickRan => ev.from = "active"

C9_Witness ==
  ResetDone /\ ev.from = "active" /\ timers = 0 /\ appState = "initial"

\* C10: when the reset completes from "active" or "finished" the state is
\* "initial", the deadline is absent, the remaining time is all zero, the
\* content is neither a generated pair nor the celebratory pair, the last
\* generated day is cleared and the in-flight flag is false.
C10_ResetClearsState ==
  (ResetDone /\ ev.from \in {"active", "finished"}) =>
    /\ appState = "initial"
    /\ targetDate = NoDate
    /\ timeLeft = ZeroTime
    /\ currentMotivation = ENTER_DAYS_MOTIVATION
    /\ currentStudyTip = ENTER_DAYS_TIP
    /\ lastGeneratedDayRef = NoDay
    /\ ~isGeneratingRef

C10_Witness ==
  /\ ResetDone /\ ev.from = "active"
  /\ \E i \in 1..Len(gens) : gens[i].stale /\ gens[i].days # NoDay

LastOf(s) == s[Len(s)]

StartDone == ev.op \in {"started", "startedUnsaved"}

\* C11: a submission of N days (1 <= N <= 365) that passes the validation is
\* made in "initial" with a signed-in user, and computes a deadline at
\* 07:00:00.000 on the calendar day N days after the day of the submission,
\* strictly after the time of the submission; when the handler resumes after
\* the save the state is "active" with that deadline, and the timestamp
\* written to the store is the same deadline.
C11_SubmissionStartsCountdown ==
  /\ [][ev'.op = "startSubmitted" =>
          LET p == pendingStarts'[Len(pendingStarts')] IN
          /\ appState = "initial"
          /\ user # NoUser
          /\ p.days \in 1..365
          /\ p.target \div MS_PER_DAY = (now \div MS_PER_DAY) + p.days
          /\ p.target % MS_PER_DAY = 7 * MS_PER_HOUR
          /\ p.target > now]_vars
  /\ [][ev'.op \in {"started", "startedUnsaved"} =>
          \E i \in 1..Len(pendingStarts) :
            /\ pendingStarts' = RemoveAt(pendingStarts, i)
            /\ appState' = "active"
            /\ targetDate' = pendingStarts[i].target
            /\ ev'.op = "started" =>
                 store'[pendingStarts[i].uid] = Doc(pendingStarts[i].target, now)]_vars

C11_Witness ==
  /\ ev.op = "started" /\ ev.from = "initial"
  /\ appState = "active"
  /\ targetDate = TargetFor(now, 2)
  /\ store[user].timestamp = targetDate

\* C12: once a valid submission has started the countdown and the first
\* tick has run, with no user action in between, a request for the
\* day-bucket of the remaining days is outstanding.
C12_GenerationIssuedAfterStart ==
  [][(StartDone /\ ev'.op = "tick") =>
       \E i \in 1..Len(gens') :
         /\ ~gens'[i].stale
         /\ gens'[i].days = timeLeft'.days
         /\ gens'[i].framing = getLlmPrompts(timeLeft'.days, FALSE).framing]_vars

\* the counts put just outside the accepted range
RejectedDayInputs ==
  { <<>>, <<"a">>, <<"-", "1">>, <<"0">>, ToDigits(MaxDays + 1), ToDigits(1000) }

AllDaysAccepted ==
  \A n \in 1..MaxDays : \A u \in Uids : StartError(ToDigits(n), u) = ""

BadDaysRejected ==
  \A s \in RejectedDayInputs : \A u \in Uids \cup {NoUser} :
    StartError(s, u) \in {ERR_INVALID_DAYS, ERR_TOO_MANY_DAYS}

\* C13: a day input that is empty, not a number, <= 0 or > 365 gets an
\* inline error and every integer in 1..365 gets none when a user is signed
\* in; a rejected submission leaves the store, the deadline, the lifecycle
\* state, the pending saves, the timers and the generations as they were.
C13_InvalidDaysRejected ==
  /\ [](AllDaysAccepted /\ BadDaysRejected)
  /\ [][ev'.op = "startRejected" =>
          /\ inputError' \in {ERR_INVALID_DAYS, ERR_TOO_MANY_DAYS, ERR_AUTH_NOT_READY}
          /\ UNCHANGED <<store, targetDate, appState, timeLeft, timers, gens,
                         isGeneratingRef, pendingStarts, currentMotivation,
                         currentStudyTip>>]_vars
  /\ [][ev'.op = "startSubmitted" =>
          /\ inputError' = ""
          /\ LastOf(pendingStarts').days \in 1..MaxDays]_vars

C13_Witness ==
  /\ ev.op = "startRejected" /\ inputError = ERR_TOO_MANY_DAYS /\ user # NoUser
  /\ appState = "initial" /\ targetDate = NoDate /\ pendingStarts = <<>>

\* C14: every load, save and delete that is pending or scheduled carries a
\* uid; while no user is signed in none is pending and the store does not
\* change; a submission made while no user is signed in is rejected with an
\* inline error and leaves the deadline, the lifecycle state and the store
\* as they were.
C14_NoPersistenceWithoutIdentity ==
  /\ [](/\ \A i \in 1..Len(loads) : loads[i].uid # NoUser
        /\ \A i \in 1..Len(pendingStarts) : pendingStarts[i].uid # NoUser
        /\ \A i \in 1..Len(pendingResets) : pendingResets[i].uid # NoUser
        /\ \A i \in 1..Len(scheduledDeletes) : scheduledDeletes[i] # NoUser)
  /\ [](user = NoUser =>
          /\ loads = <<>> /\ pendingStarts = <<>>
          /\ pendingResets = <<>> /\ scheduledDeletes = <<>>)
  /\ [][user = NoUser => store' = store]_vars
  /\ [][(user = NoUser /\ ev'.op \in {"startSubmitted", "startRejected"}) =>
          /\ ev'.op = "startRejected"
          /\ inputError' # ""
          /\ UNCHANGED <<targetDate, appState, store, pendingStarts, timers>>]_vars

C14_Witness ==
  /\ ev.op = "startRejected" /\ user = NoUser
  /\ inputError = ERR_AUTH_NOT_READY
  /\ appState = "initial" /\ targetDate = NoDate

\* C15: when the save of a submission is rejected the handler still sets
\* the new deadline and the "active" state, with the timer running and
\* nothing written; when the delete of a reset is rejected the handler
\* still reaches "initial" with the document left in the store; a rejected
\* scheduled delete changes nothing; none of them sets the "error" state.
C15_PersistenceFailureSwallowed ==
  /\ [][ev'.op = "startedUnsaved" =>
          /\ appState' = "active"
          /\ \E i \in 1..Len(pendingStarts) : targetDate' = pendingStarts[i].target
          /\ timers' = 1
          /\ store' = store]_vars
  /\ [][ev'.op = "resetUndeleted" =>
          /\ appState' = "initial"
          /\ targetDate' = NoDate
          /\ store' = store]_vars
  /\ [][ev'.op = "scheduledDelete" =>
          UNCHANGED <<appState, targetDate, timers, timeLeft>>]_vars
  /\ [][ev'.op \in {"startedUnsaved", "resetUndeleted", "scheduledDelete"} =>
          appState' # "error" \/ appState = "error"]_vars

C15_Witness ==
  /\ ev.op = "startedUnsaved" /\ appState = "active" /\ timers = 1
  /\ targetDate # NoDate /\ store[user] = NoDoc

\* C16 as stated: the controller does not wait for persistence: while a save
\* is outstanding the state is already "active" with the submitted deadline,
\* and while the delete of a reset is outstanding the state is already
\* "initial".
C16_DoesNotWaitForPersistence ==
  /\ \A i \in 1..Len(pendingStarts) :
       appState = "active" /\ targetDate = pendingStarts[i].target
  /\ \A i \in 1..Len(pendingResets) : appState = "initial"

\* C16 as amended: the controller waits for the persistence call to settle,
\* by success or by a swallowed rejection: a submission and a reset request
\* of a signed-in user change neither the lifecycle state, nor the deadline,
\* nor the timer; the submission enters "active" and the reset enters
\* "initial" in the step in which its save or delete settles.
C16_WaitsForPersistence ==
  /\ [][ev'.op \in {"startSubmitted", "resetRequested"} =>
          /\ UNCHANGED <<appState, targetDate, timeLeft, timers, store>>
          /\ Len(pendingStarts') + Len(pendingResets')
               = Len(pendingStarts) + Len(pendingResets) + 1]_vars
  /\ [][ev'.op \in {"started", "startedUnsaved"} =>
          Len(pendingStarts') = Len(pendingStarts) - 1]_vars
  /\ [][(ev'.op \in {"reset", "resetUndeleted"} /\ user # NoUser) =>
          Len(pendingResets') = Len(pendingResets) - 1]_vars
  /\ [][(appState' = "active" /\ appState # "active") =>
          ev'.op \in {"started", "startedUnsaved", "load"}]_vars
  /\ [][(appState' = "initial" /\ appState \in {"active", "finished"}) =>
          ev'.op \in {"reset", "resetUndeleted", "load"}]_vars

C16_Witness ==
  /\ ev.op = "resetRequested" /\ appState = "active" /\ timers = 1
  /\ pendingResets # <<>> /\ store[user].exists

\* C17: for every deadline and current time in milliseconds,
\* calculateTimeLeft returns all-zero fields when the current time is at or
\* after the deadline, and otherwise the floor decomposition of the
\* difference d: days = d div 86400000, hours = (d mod 86400000) div
\* 3600000, minutes = (d mod 3600000) div 60000, seconds = (d mod 60000) div
\* 1000; no field is negative, hours < 24, minutes < 60 and seconds < 60.
C17_FloorDecomposition ==
  probe.fn = "calculateTimeLeft" =>
    LET d == probe.target - probe.current
        r == probe.result
    IN /\ r.days >= 0 /\ r.hours \in 0..23 /\ r.minutes \in 0..59 /\ r.seconds \in 0..59
       /\ IF probe.current >= probe.target
            THEN r.days = 0 /\ r.hours = 0 /\ r.minutes = 0 /\ r.seconds = 0
            ELSE /\ r.days = d \div 86400000
                 /\ r.hours = (d % 86400000) \div 3600000
                 /\ r.minutes = (d % 3600000) \div 60000
                 /\ r.seconds = (d % 60000) \div 1000
                 /\ LET whole == r.days * 86400000 + r.hours * 3600000
                                   + r.minutes * 60000 + r.seconds * 1000
                    IN whole <= d /\ d < whole + 1000

C17_Witness ==
  /\ probe.fn = "calculateTimeLeft"
  /\ probe.target - probe.current = 86400000 + 23 * 3600000 + 59 * 60000 + 59 * 1000 + 999
  /\ probe.result = [days |-> 1, hours |-> 23, minutes |-> 59, seconds |-> 59]

\* C18 as stated: all four fields of the remaining time are zero if and only
\* if the current time is at or after the deadline.
C18_ZeroIffDeadlinePassed ==
  probe.fn = "calculateTimeLeft" =>
    (IsZeroTime(probe.result) <=> probe.current >= probe.target)

\* C18 as amended: all four fields are zero if and only if less than one
\* second remains, which includes every time at or after the deadline.
C18_ZeroIffUnderOneSecond ==
  probe.fn = "calculateTimeLeft" =>
    /\ IsZeroTime(probe.result) <=> probe.target - probe.current < 1000
    /\ probe.current >= probe.target => IsZeroTime(probe.result)

C18_Witness ==
  /\ probe.fn = "calculateTimeLeft"
  /\ probe.target - probe.current = 999
  /\ IsZeroTime(probe.result)

\* the framing of section 4.2, by its precedence
ExpectedFraming(daysRemaining, isToday) ==
  IF isToday THEN "examToday"
  ELSE IF daysRemaining = 1 THEN "finalDayBefore"
  ELSE IF daysRemaining > 50 THEN "longHorizon"
  ELSE IF daysRemaining \in 31..50 THEN "midHorizon"
  ELSE IF daysRemaining \in 8..30 THEN "shortHorizon"
  ELSE IF daysRemaining \in 2..7 THEN "finalStretch"
  ELSE "placeholder"

BoundaryPairs == { <<50, 51>>, <<30, 31>>, <<7, 8>>, <<1, 2>> }

\* C19: for every daysRemaining in 0..365 and either value of isToday,
\* getLlmPrompts selects one framing by the precedence isToday, 1, > 50,
\* 31..50, 8..30, 2..7, placeholder; the two days of each of the pairs
\* 50/51, 30/31, 7/8 and 1/2 get different framings; isToday selects the
\* fixed pair whatever daysRemaining is.
C19_FramingPrecedence ==
  probe.fn = "getLlmPrompts" =>
    /\ probe.result.framing = ExpectedFraming(probe.daysRemaining, probe.isExamToday)
    /\ probe.isExamToday =>
         /\ probe.result.motivationPrompt = EXAM_MOTIVATION
         /\ probe.result.studyTipPrompt = EXAM_TODAY_TIP
    /\ (probe.daysRemaining = 0 /\ ~probe.isExamToday) =>
         /\ probe.result.motivationPrompt = ENTER_DAYS_MOTIVATION
         /\ probe.result.studyTipPrompt = ENTER_DAYS_TIP
    /\ \A pair \in BoundaryPairs :
         (probe.daysRemaining = pair[1] /\ ~probe.isExamToday) =>
           /\ probe.result.framing # getLlmPrompts(pair[2], FALSE).framing
           /\ probe.result.motivationPrompt # getLlmPrompts(pair[2], FALSE).motivationPrompt

C19_Witness ==
  /\ probe.fn = "getLlmPrompts" /\ probe.daysRemaining = 50 /\ ~probe.isExamToday
  /\ probe.result.framing = "midHorizon"

\* refs and content as they are when nothing was generated yet
FreshContent(lastDay, generating) ==
  [motivation |-> "", studyTip |-> "", isLoadingMessage |-> generating,
   lastGeneratedDay |-> lastDay, isGenerating |-> generating, gens |-> <<>>]

\* generateLlmContent called with the exam-day flag, for every day count,
\* from the closure of the "active" state
ExamTodayNeverRequests ==
  \A d \in 0..MaxDays : \A lastDay \in {NoDay, d} : \A generating \in BOOLEAN :
    LET c == FreshContent(lastDay, generating)
        r == generateLlmContent("active", d, TRUE, c)
    IN /\ r.gens = c.gens
       /\ r.isGenerating = c.isGenerating
       /\ ~generating => /\ r.motivation = EXAM_MOTIVATION
                          /\ r.studyTip = EXAM_TODAY_TIP
                          /\ ~r.isLoadingMessage

C21_FinishedContentFixed ==
  appState = "finished" =>
    /\ currentMotivation = EXAM_MOTIVATION
    /\ currentStudyTip = FINISHED_TIP

\* C22: a tick that runs while a generation is outstanding starts no
\* request and changes neither the in-flight flag nor the last generated
\* day; it still recomputes the remaining time and still moves to
\* "finished" when the remaining time is all zero.
C22_TickDuringGenerationIsNoOp ==
  [][(ev'.op \in {"tick", "tickFinished"} /\ gens # <<>>) =>
       /\ gens' = gens
       /\ isGeneratingRef' = isGeneratingRef
       /\ lastGeneratedDayRef' = lastGeneratedDayRef
       /\ timeLeft' = calculateTimeLeft(targetDate, now)
       /\ IsZeroTime(timeLeft') => appState' = "finished"]_vars

C25_LoadFailureForcesInitial ==
  [][(ev'.op = "load" /\ ev'.snap.failed) =>
       /\ appState' = "initial"
       /\ timers' = 0
       /\ targetDate' = targetDate
       /\ appState = "loading" => targetDate' = NoDate]_vars

C25_Witness ==
  /\ ev.op = "load" /\ ev.from = "loading" /\ ev.snap.failed
  /\ appState = "initial" /\ timers = 0 /\ targetDate = NoDate
  /\ store[user].exists

\* C26: a deletion scheduled when the countdown reached zero, or when an
\* expired document was loaded, does not remove the document of a countdown
\* started afterwards: when it fires while the state is "active" and the
\* store holds the deadline being counted, the document is still there
\* afterwards.
C26_ScheduledDeleteSparesNewRecord ==
  [][(/\ ev'.op = "scheduledDelete"
      /\ appState = "active"
      /\ user # NoUser
      /\ store[user].exists
      /\ store[user].timestamp = targetDate)
       => store'[user] = store[user]]_vars

C28_NoReissueForSameDay ==
  [][(/\ ev.op = "genFailed"
      /\ ~ev.gen.stale
      /\ ev'.op = "tick"
      /\ timeLeft'.days = ev.gen.days)
       => gens' = gens]_vars

\* C29: a load that completes in a state other than "loading" leaves the
\* lifecycle state, the deadline, the remaining time and the displayed pair
\* as they were.
C29_LateLoadChangesNothing ==
  [][(ev'.op = "load" /\ appState # "loading") =>
       UNCHANGED <<appState, targetDate, timeLeft, currentMotivation,
                   currentStudyTip>>]_vars

\* C30: while the state is "active" it changes only through a tick that
\* computes an all-zero remaining time (to "finished") or through the reset
\* (to "initial"); the completion of a save, a delete or a generation never
\* changes it.
C30_ActiveLeftOnlyByTickOrReset ==
  [][(appState = "active" /\ appState' # "active") =>
       \/ /\ ev'.op = "tickFinished"
          /\ IsZeroTime(timeLeft')
          /\ appState' = "finished"
       \/ /\ ev'.op \in {"reset", "resetUndeleted"}
          /\ appState' = "initial"]_vars

\* the local calendar day an instant falls on (local time taken as UTC)
CalendarDay(instant) == instant \div MS_PER_DAY

\* C31: the exam-day flag a tick computes and passes to generateLlmContent
\* is true only on the calendar day of the deadline, with time remaining.
C31_ExamDayFlagOnlyOnDeadlineDay ==
  [][(ev'.op = "tick" /\ IsExamDayInProgress(timeLeft')) =>
       /\ CalendarDay(now) = CalendarDay(targetDate)
       /\ now < targetDate]_vars

\* C32: within one countdown, once a generation has succeeded for the
\* day-bucket d >= 1, a tick that still computes d days issues no request;
\* and the last generated day changes only by a successful generation (to
\* its day-bucket), by the fixed exam-day content (to the days of that
\* tick), or by the submission or the reset that begins or ends the countdown.
C32_NoRequestAfterSuccessForSameDay ==
  /\ [][(ev'.op = "tick" /\ ev.doneDay >= 1 /\ timeLeft'.days = ev.doneDay)
          => gens' = gens]_vars
  /\ [][lastGeneratedDayRef' # lastGeneratedDayRef =>
          \/ /\ ev'.op = "genSuccess"
             /\ lastGeneratedDayRef' = ev'.gen.days
          \/ /\ ev'.op = "tick"
             /\ IsExamDayInProgress(timeLeft')
             /\ lastGeneratedDayRef' = timeLeft'.days
          \/ /\ ev'.op \in {"started", "startedUnsaved", "reset", "resetUndeleted"}
             /\ lastGeneratedDayRef' = NoDay]_vars

\* a request of the present countdown for the days last computed is
\* outstanding
RequestOutstanding ==
  \E i \in 1..Len(gens) : ~gens[i].stale /\ gens[i].days = timeLeft.days

ResetSeen ==
  ev.op \in {"resetRequested", "reset", "resetUndeleted"} \/ pendingResets # <<>>

\* the deadline lies beyond the last instant observed
DeadlineOutOfReach == targetDate > Now(LastClock)

\* C34: from "active" with a deadline the clock reaches, and without a
\* reset or a later deadline being set, the state eventually becomes
\* "finished", whatever the generation, the save and the delete do; and a
\* tick during a backoff wait still sets the remaining time.
C34_CountdownEventuallyFinishes ==
  /\ (appState = "active" /\ ~DeadlineOutOfReach)
       ~> (appState = "finished" \/ ResetSeen \/ DeadlineOutOfReach)
  /\ [][(ev'.op = "tick" /\ \E i \in 1..Len(gens) : gens[i].phase = "backoff")
          => timeLeft' = calculateTimeLeft(targetDate, now)]_vars

\* C35: every request outstanding, and every request that has just ended,
\* is for one day or more and never carries the placeholder pair of
\* getLlmPrompts(0, false).
C35_NoRequestForZeroDays ==
  /\ \A i \in 1..Len(gens) :
       /\ gens[i].days >= 1
       /\ gens[i].framing # "placeholder"
  /\ ev.gen # NoGen => (ev.gen.days >= 1 /\ ev.gen.framing # "placeholder")

\* a tick with less than a day left has run while another request was not
\* in flight, and has sent nothing
C35_Witness ==
  /\ ev.op = "tick"
  /\ appState = "active"
  /\ timeLeft.days = 0
  /\ ~IsZeroTime(timeLeft)
  /\ ~isGeneratingRef
  /\ gens = <<>>
  /\ currentMotivation = EXAM_MOTIVATION

====
